---- MODULE Spec2Model ----
(***************************************************************************)
(* RF Link Planner (src/app.js): towers placed on a map, point-to-point    *)
(* links between towers of equal frequency, a single active Fresnel zone,  *)
(* and the confirmation modal that guards deletions and frequency edits.   *)
(*                                                                         *)
(* Tower objects are JavaScript objects shared by reference between        *)
(* state.towers, state.selectedTowers and the links' tower1/tower2 fields, *)
(* so the model keeps them in a heap, towerObj, indexed by tower id (ids   *)
(* are never reused); state.towers and state.selectedTowers hold ids.      *)
(* Frequencies are in tenths of a GHz.                                     *)
(***************************************************************************)
EXTENDS Integers, Sequences, FiniteSets, TLC

\* ------------------------------------------------------------------ bounds
MaxTowerId == 2
MaxLinkId == 2
\* the registry the deletion specification starts from
RegistryTowers == 3
RegistryLinks == 2
\* the highest frequency given to calculateWavelength, in tenths of a GHz
MaxFrequencyGHz == 60

\* --------------------------------------------------------------- constants
\* null, for the nullable ids (activeLinkForFresnel, confirmAction)
null == 0
\* JavaScript's NaN, the result of parseFloat on a non-numeric string
NaN == -999
\* DEFAULT_FREQUENCY = 5.0 GHz
DEFAULT_FREQUENCY == 50

\* --------------------------------------------------------------- inputs
\* e.latlng of a map click
Locations == {[lat |-> 0, lng |-> 0]}
\* value of the towerName text input
Names == {"", "Tower"}
\* value of a type=number frequency input ("" is what a non-numeric entry reads as)
FreqInputs == {"5", "5.1", "0", ""}
\* value of the towerFrequency input of the tower modal
SaveInputs == FreqInputs \cup {"-1"}
Modes == {"addTower", "addLink"}

VARIABLES
    mode,                  \* state.mode
    towers,                \* state.towers, as the sequence of tower ids
    towerObj,              \* the tower objects, by id (index), live or deleted
    links,                 \* state.links, sequence of link records
    selectedTowers,        \* state.selectedTowers, as a sequence of tower ids
    towerIdCounter,        \* state.towerIdCounter
    linkIdCounter,         \* state.linkIdCounter
    pendingTowerLocation,  \* state.pendingTowerLocation: <<>> (null) or <<latlng>>
    activeLinkForFresnel,  \* state.activeLinkForFresnel: null or a link id
    confirmAction,         \* state.confirmAction: null or the resolver of the promise
                           \* awaited by updateTowerFrequency(tower id)
    confirmShown,          \* confirmModal has class 'show'
    armed,                 \* the click listeners on confirmBtn/cancelConfirmBtn that a
                           \* click can reach: the buttons of a hidden modal cannot be
                           \* clicked, and showConfirmationModal replaces both listeners
    animating,             \* tower ids whose list item carries an animationend listener
    preEdit,               \* history: tower and frequency before the edit awaiting confirmation
    notification,          \* message shown by the last handler
    thrown,                \* the last handler ended in an uncaught TypeError
    calc                   \* the last call of a calculation function: its name,
                           \* its arguments and the value it returned

vars == <<mode, towers, towerObj, links, selectedTowers, towerIdCounter, linkIdCounter,
          pendingTowerLocation, activeLinkForFresnel, confirmAction, confirmShown,
          armed, animating, preEdit, notification, thrown, calc>>

\* ------------------------------------------------------------ JS helpers
Range(s) == {s[i] : i \in 1..Len(s)}

\* a === b on numbers
StrictEq(a, b) == a # NaN /\ b # NaN /\ a = b
\* !x on a number
Falsy(x) == x = NaN \/ x = 0
\* x <= 0 on a number
LeqZero(x) == x # NaN /\ x <= 0

\* parseFloat on the strings of SaveInputs, in tenths
parseFloat(s) ==
    CASE s = "5" -> 50
      [] s = "5.1" -> 51
      [] s = "0" -> 0
      [] s = "-1" -> -10
      [] OTHER -> NaN

\* array.findIndex(x => x.id === id) + 1 (0 when absent), on a sequence of records
RECURSIVE FindIndexFrom(_, _, _)
FindIndexFrom(s, id, i) ==
    IF i > Len(s) THEN 0
    ELSE IF s[i].id = id THEN i
    ELSE FindIndexFrom(s, id, i + 1)
findIndex(s, id) == FindIndexFrom(s, id, 1)

\* array.findIndex on a sequence of ids
RECURSIVE IdIndexFrom(_, _, _)
IdIndexFrom(s, id, i) ==
    IF i > Len(s) THEN 0
    ELSE IF s[i] = id THEN i
    ELSE IdIndexFrom(s, id, i + 1)
idIndex(s, id) == IdIndexFrom(s, id, 1)

\* array.splice(i, 1)
splice(s, i) == [j \in 1..(Len(s) - 1) |-> IF j < i THEN s[j] ELSE s[j + 1]]

\* the listeners showConfirmationModal has not yet attached
NoHandler == [kind |-> "none", id |-> null, links |-> <<>>, returnPromise |-> FALSE]
NoEdit == [tower |-> null, frequency |-> 0]

\* -------------------------------------------------- calculation functions
\* JavaScript numbers are modelled in fixed point, with every product and
\* quotient rounded to the nearest unit, the same way for x and -x as IEEE
\* arithmetic does: degrees in hundredths (DegreeScale), radians and the
\* values of sin and cos in ten-thousandths (Scale), kilometres in
\* ten-thousandths, GHz in tenths, Hz in MHz, metres in micrometres.
Scale == 10000
DegreeScale == 100
\* Math.PI, in Scale
PI == 31416
HalfPI == 15708
\* const R = 6371, Earth's radius in km
R == 6371
\* SPEED_OF_LIGHT = 3e8 m/s
SPEED_OF_LIGHT == 300000000
\* the factor 1e9 of GHz to Hz: MHz in a tenth of a GHz
GHzToHz == 100
\* the literal 360 of calculateBearing, in DegreeScale
FullTurn == 36000
\* the factor 1000 of calculateFresnelRadius, km to metres
MetresPerKm == 1000

Abs(x) == IF x < 0 THEN -x ELSE x
\* a / b for b > 0, rounded to the nearest unit
Div(a, b) == IF a >= 0 THEN (a + b \div 2) \div b ELSE -((b \div 2 - a) \div b)
\* a * b on two numbers in Scale
Mul(a, b) == Div(a * b, Scale)
\* a % b of JavaScript: the remainder has the sign of a
Rem(a, b) == IF a >= 0 THEN a % b ELSE -((-a) % b)

\* toRadians(degrees): degrees * Math.PI / 180
toRadians(degrees) == Div(degrees * PI, 180 * DegreeScale)
\* toDegrees(radians): radians * 180 / Math.PI
toDegrees(radians) == Div(radians * 180 * DegreeScale, PI)

\* an angle of [-2 PI, 2 PI] brought into [-PI, PI]
Reduce(x) == IF x > PI THEN x - 2 * PI ELSE IF x < -PI THEN x + 2 * PI ELSE x

\* Math.sin on [-PI/2, PI/2], by its series up to x^9
SinSeries(x) ==
    LET x2 == Mul(x, x)
        p4 == Scale - Div(x2, 72)
        p3 == Scale - Div(Mul(x2, p4), 42)
        p2 == Scale - Div(Mul(x2, p3), 20)
        p1 == Scale - Div(Mul(x2, p2), 6)
    IN Mul(x, p1)

\* Math.cos on [-PI/2, PI/2], by its series up to x^8
CosSeries(x) ==
    LET x2 == Mul(x, x)
        p4 == Scale - Div(x2, 56)
        p3 == Scale - Div(Mul(x2, p4), 30)
        p2 == Scale - Div(Mul(x2, p3), 12)
    IN Scale - Div(Mul(x2, p2), 2)

\* Math.sin
sin(x) ==
    LET r == Reduce(x) IN
    IF r > HalfPI THEN SinSeries(PI - r)
    ELSE IF r < -HalfPI THEN SinSeries(-PI - r)
    ELSE SinSeries(r)

\* Math.cos
cos(x) ==
    LET r == Abs(Reduce(x)) IN
    IF r > HalfPI THEN -CosSeries(PI - r) ELSE CosSeries(r)

\* the integer square root of n, by bisection on lo..hi
RECURSIVE SqrtBetween(_, _, _)
SqrtBetween(n, lo, hi) ==
    IF lo >= hi THEN lo
    ELSE LET mid == (lo + hi + 1) \div 2 IN
         IF mid * mid <= n THEN SqrtBetween(n, mid, hi) ELSE SqrtBetween(n, lo, mid - 1)

\* Math.sqrt on a number in Scale: NaN for a negative number
sqrt(x) ==
    IF x < 0 THEN NaN
    ELSE LET n == x * Scale
             r == SqrtBetween(n, 0, 2 * Scale)
         IN IF n - r * r > r THEN r + 1 ELSE r

\* Math.atan on [0, 1], within 0.0015 rad:
\* PI/4 z + z (1 - z) (0.2447 + 0.0663 z)
ArcTan(z) == Mul(Div(PI, 4), z) + Mul(Mul(z, Scale - z), 2447 + Mul(663, z))

\* Math.atan2(y, x), in (-PI, PI]
atan2(y, x) ==
    LET ay == Abs(y)
        ax == Abs(x)
        base == IF ay <= ax THEN ArcTan(Div(ay * Scale, ax))
                ELSE HalfPI - ArcTan(Div(ax * Scale, ay))
        quadrant == IF x < 0 THEN PI - base ELSE base
    IN IF x = 0 /\ y = 0 THEN 0
       ELSE IF y < 0 THEN -quadrant ELSE quadrant

\* calculateWavelength with 1e10 for the factor 1e9 of GHz to Hz
calculateWavelengthTenfold(frequencyGHz) ==
    LET frequencyHz == frequencyGHz * GHzToHz * 10 IN
    Div(SPEED_OF_LIGHT, frequencyHz)

\* calculateWavelength(frequencyGHz), for frequencyGHz > 0
calculateWavelength(frequencyGHz) ==
    LET frequencyHz == frequencyGHz * GHzToHz IN
    Div(SPEED_OF_LIGHT, frequencyHz)

\* Math.sqrt on tenths of a square metre, in centimetres
sqrtCentimetres(x) ==
    IF x < 0 THEN NaN
    ELSE LET n == x * 1000
             r == SqrtBetween(n, 0, 4 * Scale)
         IN IF n - r * r > r THEN r + 1 ELSE r

\* calculateFresnelRadius(wavelength, d1, d2): the wavelength in micrometres,
\* d1 and d2 in km (in Scale), the radius in centimetres; the product
\* wavelength * d1Meters * d2Meters is kept in tenths of a square metre, and
\* 0 / 0 is NaN
calculateFresnelRadius(wavelength, d1, d2) ==
    LET d1Meters == Div(d1 * MetresPerKm, Scale)
        d2Meters == Div(d2 * MetresPerKm, Scale)
        product == Div(Div(wavelength, 100) * d1Meters, 1000) * d2Meters
    IN IF d1Meters + d2Meters = 0 THEN NaN
       ELSE sqrtCentimetres(Div(product, d1Meters + d2Meters))

\* the maxRadius of showFresnelZone read from the current frequency of the
\* link's first tower
maxRadiusOfTower(link) ==
    LET wavelength == calculateWavelength(link.tower1.frequency)
        distance == link.distance
        d1 == Div(distance, 2)
        d2 == Div(distance, 2)
    IN calculateFresnelRadius(wavelength, d1, d2)

\* the maxRadius showFresnelZone(link) computes for the ellipse
maxRadius(link) ==
    LET wavelength == calculateWavelength(link.frequency)
        distance == link.distance
        d1 == Div(distance, 2)
        d2 == Div(distance, 2)
    IN calculateFresnelRadius(wavelength, d1, d2)

\* the haversine term a of calculateDistance
Haversine(lat1, lon1, lat2, lon2) ==
    LET dLat == toRadians(lat2 - lat1)
        dLon == toRadians(lon2 - lon1)
    IN Mul(sin(Div(dLat, 2)), sin(Div(dLat, 2)))
       + Mul(Mul(Mul(cos(toRadians(lat1)), cos(toRadians(lat2))),
                 sin(Div(dLon, 2))), sin(Div(dLon, 2)))

\* calculateDistance(lat1, lon1, lat2, lon2); Math.sqrt(1 - a) is NaN when
\* rounding has brought a above 1, and the NaN goes through Math.atan2 and
\* the products to the result
calculateDistance(lat1, lon1, lat2, lon2) ==
    LET a == Haversine(lat1, lon1, lat2, lon2) IN
    IF sqrt(Scale - a) = NaN THEN NaN
    ELSE LET c == 2 * atan2(sqrt(a), sqrt(Scale - a)) IN R * c

\* Math.atan2(y, x) of calculateBearing
BearingRad(lat1, lon1, lat2, lon2) ==
    LET lat1Rad == toRadians(lat1)
        lat2Rad == toRadians(lat2)
        lonDiffRad == toRadians(lon2 - lon1)
        y == Mul(sin(lonDiffRad), cos(lat2Rad))
        x == Mul(cos(lat1Rad), sin(lat2Rad))
             - Mul(Mul(sin(lat1Rad), cos(lat2Rad)), cos(lonDiffRad))
    IN atan2(y, x)

\* calculateBearing(lat1, lon1, lat2, lon2): (toDegrees(bearing) + 360) % 360
calculateBearing(lat1, lon1, lat2, lon2) ==
    Rem(toDegrees(BearingRad(lat1, lon1, lat2, lon2)) + FullTurn, FullTurn)

\* calculateBearing of the second copy of the code: toDegrees(bearing)
calculateBearingLegacy(lat1, lon1, lat2, lon2) ==
    toDegrees(BearingRad(lat1, lon1, lat2, lon2))

\* the width in pixels of the world on state.map at a zoom level: the scale
\* of the map's projection, 256 * 2^zoom
WorldPixels(zoom) == 256 * 2^zoom

\* state.map.latLngToLayerPoint(latlng) with the map at the zoom level: the
\* whole pixels to the right of and below the point of latitude 0 and
\* longitude 0, the projection taken linear in the latitude
latLngToLayerPoint(zoom, latlng) ==
    [x |-> Div(latlng.lng * WorldPixels(zoom), FullTurn),
     y |-> -Div(latlng.lat * WorldPixels(zoom), FullTurn)]

\* state.map.layerPointToLatLng(point) with the map at the zoom level
layerPointToLatLng(zoom, point) ==
    [lat |-> Div((-point.y) * FullTurn, WorldPixels(zoom)),
     lng |-> Div(point.x * FullTurn, WorldPixels(zoom))]

\* createEllipsePolygon(center, semiMajor, semiMinor, bearing, points) with
\* state.map at the zoom level: the latlngs given to L.polygon
createEllipsePolygon(zoom, center, semiMajor, semiMinor, bearing, points) ==
    LET centerPt == latLngToLayerPoint(zoom, center)
        bearingRad == toRadians(-bearing)
        latlng(i) ==
            LET angle == Div(i * 2 * PI, points)
                x == Div(semiMinor * cos(angle), Scale)
                y == Div(semiMajor * sin(angle), Scale)
                rotatedX == centerPt.x + Div(x * cos(bearingRad), Scale)
                                       - Div(y * sin(bearingRad), Scale)
                rotatedY == centerPt.y + Div(x * sin(bearingRad), Scale)
                                       + Div(y * cos(bearingRad), Scale)
            IN layerPointToLatLng(zoom, [x |-> rotatedX, y |-> rotatedY])
    IN [i \in 1..points |-> latlng(i - 1)]

\* the arguments of createEllipsePolygon when it was not called
NoEllipse == [center : {[lat |-> 0, lng |-> 0]}, semiMajor : {0},
              semiMinor : {0}, bearing : {0}, points : {64}]

\* no calculation function called yet
NoCalc == [fn |-> "none", lat1 |-> 0, lon1 |-> 0, lat2 |-> 0, lon2 |-> 0,
           frequencyGHz |-> DEFAULT_FREQUENCY, distance |-> 0,
           towerFrequencyGHz |-> DEFAULT_FREQUENCY, value |-> 0,
           ellipse |-> CHOOSE e \in NoEllipse : TRUE, zoom |-> 10,
           latlngs |-> <<>>]

\* ------------------------------------------------------ the second copy
\* The second copy of the logic (native alert and confirm dialogs, deletions
\* at once), as functions on st = [mode, towers, towerObj, links,
\* selectedTowers, towerIdCounter, linkIdCounter, pendingTowerLocation,
\* active].
\* handleMapClick(e) of the second copy
legacyHandleMapClick(st, loc) ==
    IF st.mode = "addTower" THEN [st EXCEPT !.pendingTowerLocation = <<loc>>] ELSE st

\* saveTower() of the second copy, with its addTower and hideTowerModal
legacySaveTower(st, name, s) ==
    LET frequency == parseFloat(s) IN
    IF name = "" \/ Falsy(frequency) \/ LeqZero(frequency) THEN st
    ELSE IF st.pendingTowerLocation # <<>>
    THEN [st EXCEPT
             !.towerObj = Append(st.towerObj,
                 [id |-> st.towerIdCounter, name |-> name, frequency |-> frequency,
                  lat |-> st.pendingTowerLocation[1].lat,
                  lng |-> st.pendingTowerLocation[1].lng]),
             !.towerIdCounter = st.towerIdCounter + 1,
             !.towers = Append(st.towers, st.towerIdCounter),
             !.pendingTowerLocation = <<>>]
    ELSE st

\* the second copy's createLink testing for an existing link in the clicked
\* direction only
legacyCreateLinkDirected(st, tower1, tower2) ==
    LET exists == \E i \in 1..Len(st.links) :
                      st.links[i].tower1 = tower1 /\ st.links[i].tower2 = tower2
    IN IF exists THEN st
       ELSE [st EXCEPT
                !.links = Append(st.links,
                    [id |-> st.linkIdCounter, tower1 |-> tower1, tower2 |-> tower2,
                     frequency |-> st.towerObj[tower1].frequency,
                     distance |-> calculateDistance(
                         st.towerObj[tower1].lat, st.towerObj[tower1].lng,
                         st.towerObj[tower2].lat, st.towerObj[tower2].lng),
                     polyline |-> TRUE, fresnelZone |-> FALSE]),
                !.linkIdCounter = st.linkIdCounter + 1]

\* createLink(tower1, tower2) of the second copy
legacyCreateLink(st, tower1, tower2) ==
    LET exists == \E i \in 1..Len(st.links) :
                      \/ (st.links[i].tower1 = tower1 /\ st.links[i].tower2 = tower2)
                      \/ (st.links[i].tower1 = tower2 /\ st.links[i].tower2 = tower1)
    IN IF exists THEN st
       ELSE [st EXCEPT
                !.links = Append(st.links,
                    [id |-> st.linkIdCounter, tower1 |-> tower1, tower2 |-> tower2,
                     frequency |-> st.towerObj[tower1].frequency,
                     distance |-> calculateDistance(
                         st.towerObj[tower1].lat, st.towerObj[tower1].lng,
                         st.towerObj[tower2].lat, st.towerObj[tower2].lng),
                     polyline |-> TRUE, fresnelZone |-> FALSE]),
                !.linkIdCounter = st.linkIdCounter + 1]

\* handleTowerClickForLink(tower) of the second copy
legacyHandleTowerClickForLink(st, t) ==
    LET index == idIndex(st.selectedTowers, t)
        sel == IF index # 0 THEN splice(st.selectedTowers, index)
               ELSE Append(st.selectedTowers, t)
    IN IF Len(sel) = 2
       THEN IF ~StrictEq(st.towerObj[sel[1]].frequency, st.towerObj[sel[2]].frequency)
            THEN [st EXCEPT !.selectedTowers = <<>>]
            ELSE [legacyCreateLink(st, sel[1], sel[2]) EXCEPT !.selectedTowers = <<>>]
       ELSE [st EXCEPT !.selectedTowers = sel]

\* the marker's click listener of the second copy
legacyMarkerClick(st, t) ==
    IF st.mode = "addLink" THEN legacyHandleTowerClickForLink(st, t) ELSE st

\* setMode(mode) of the second copy, with its clearTowerSelection
legacySetMode(st, m) == [st EXCEPT !.mode = m, !.selectedTowers = <<>>]

\* deleteLink(linkId) of the second copy
legacyDeleteLink(st, linkId) ==
    LET linkIndex == findIndex(st.links, linkId) IN
    IF linkIndex = 0 THEN st
    ELSE [st EXCEPT !.links = splice(st.links, linkIndex),
                    !.active = IF st.active = linkId THEN null ELSE st.active]

\* linksToRemove.forEach(link => deleteLink(link.id)) of the second copy
RECURSIVE legacyDeleteEach(_, _, _)
legacyDeleteEach(st, toRemove, k) ==
    IF k > Len(toRemove) THEN st
    ELSE legacyDeleteEach(legacyDeleteLink(st, toRemove[k].id), toRemove, k + 1)

\* deleteTower(towerId) of the second copy
legacyDeleteTower(st, towerId) ==
    LET towerIndex == idIndex(st.towers, towerId) IN
    IF towerIndex = 0 THEN st
    ELSE LET linksToRemove == SelectSeq(st.links, LAMBDA link :
                                  link.tower1 = towerId \/ link.tower2 = towerId)
             after == legacyDeleteEach(st, linksToRemove, 1)
         IN [after EXCEPT !.towers = splice(after.towers, towerIndex)]

\* ------------------------------------------------------------------ Init
Init ==
    /\ mode = "addTower"
    /\ towers = <<>>
    /\ towerObj = <<>>
    /\ links = <<>>
    /\ selectedTowers = <<>>
    /\ towerIdCounter = 1
    /\ linkIdCounter = 1
    /\ pendingTowerLocation = <<>>
    /\ activeLinkForFresnel = null
    /\ confirmAction = null
    /\ confirmShown = FALSE
    /\ armed = NoHandler
    /\ animating = {}
    /\ preEdit = NoEdit
    /\ notification = "none"
    /\ thrown = FALSE
    /\ calc = NoCalc

\* --------------------------------------------------------- tower placement
\* handleMapClick(e) without its test of state.mode
HandleMapClickAnyMode(loc) ==
    /\ pendingTowerLocation' = <<loc>>
    /\ notification' = "none"
    /\ UNCHANGED calc
    /\ thrown' = FALSE
    /\ UNCHANGED <<mode, towers, towerObj, links, selectedTowers, towerIdCounter,
                   linkIdCounter, activeLinkForFresnel, confirmAction, confirmShown,
                   armed, animating, preEdit>>

\* handleMapClick(e)
HandleMapClick(loc) ==
    /\ pendingTowerLocation' = IF mode = "addTower" THEN <<loc>> ELSE pendingTowerLocation
    /\ notification' = "none"
    /\ UNCHANGED calc
    /\ thrown' = FALSE
    /\ UNCHANGED <<mode, towers, towerObj, links, selectedTowers, towerIdCounter,
                   linkIdCounter, activeLinkForFresnel, confirmAction, confirmShown,
                   armed, animating, preEdit>>

\* hideTowerModal(), from the cancel button or a click outside the tower modal
HideTowerModal ==
    /\ pendingTowerLocation # <<>>
    /\ pendingTowerLocation' = <<>>
    /\ notification' = "none"
    /\ UNCHANGED calc
    /\ thrown' = FALSE
    /\ UNCHANGED <<mode, towers, towerObj, links, selectedTowers, towerIdCounter,
                   linkIdCounter, activeLinkForFresnel, confirmAction, confirmShown,
                   armed, animating, preEdit>>

\* saveTower's test without its last clause, frequency <= 0
InvalidTowerInputNoSign(name, frequency) ==
    name = "" \/ Falsy(frequency)

\* saveTower's test: !name || !frequency || frequency <= 0
InvalidTowerInput(name, frequency) ==
    name = "" \/ Falsy(frequency) \/ LeqZero(frequency)

\* saveTower(), with addTower and hideTowerModal; the save button and the
\* frequency field live in the tower modal, shown while a location is pending
SaveTower(name, s) ==
    LET frequency == parseFloat(s) IN
    /\ pendingTowerLocation # <<>>
    /\ thrown' = FALSE
    /\ UNCHANGED calc
    /\ IF InvalidTowerInput(name, frequency)
       THEN /\ notification' = "invalidTower"
            /\ UNCHANGED <<towers, towerObj, towerIdCounter, pendingTowerLocation, animating>>
       ELSE /\ notification' = "none"
            /\ IF pendingTowerLocation # <<>>
               THEN /\ towerIdCounter <= MaxTowerId
                    /\ towerObj' = Append(towerObj,
                           [id |-> towerIdCounter, name |-> name, frequency |-> frequency,
                            lat |-> pendingTowerLocation[1].lat,
                            lng |-> pendingTowerLocation[1].lng])
                    /\ towerIdCounter' = towerIdCounter + 1
                    /\ towers' = Append(towers, towerIdCounter)
                    /\ animating' = {}
                    /\ pendingTowerLocation' = <<>>
               ELSE UNCHANGED <<towers, towerObj, towerIdCounter, pendingTowerLocation,
                                animating>>
    /\ UNCHANGED <<mode, links, selectedTowers, linkIdCounter, activeLinkForFresnel,
                   confirmAction, confirmShown, armed, preEdit>>

\* ------------------------------------------------------- selection, links
\* the toggle without its deselect branch
ToggleSelectionAppendOnly(sel, t) == Append(sel, t)

\* the toggle at the head of handleTowerClickForLink
ToggleSelection(sel, t) ==
    IF idIndex(sel, t) # 0 THEN splice(sel, idIndex(sel, t)) ELSE Append(sel, t)

\* the frequency test comparing whole GHz only
FrequencyMismatchRounded(f1, f2) == ~StrictEq(f1, f2) /\ (f1 = NaN \/ f2 = NaN \/ f1 \div 10 # f2 \div 10)

\* handleTowerClickForLink's test: tower1.frequency !== tower2.frequency
FrequencyMismatch(f1, f2) == ~StrictEq(f1, f2)

\* createLink's test with the reversed pair forgotten
LinkExistsDirected(ls, t1, t2) ==
    \E i \in 1..Len(ls) : ls[i].tower1 = t1 /\ ls[i].tower2 = t2

\* createLink's test: state.links.some(link => same pair in either order)
LinkExists(ls, t1, t2) ==
    \E i \in 1..Len(ls) :
        \/ (ls[i].tower1 = t1 /\ ls[i].tower2 = t2)
        \/ (ls[i].tower1 = t2 /\ ls[i].tower2 = t1)

\* the link object with its id taken from the length of state.links
NewLinkByCount(id, t1, t2) ==
    [id |-> Len(links) + 1, tower1 |-> t1, tower2 |-> t2,
     frequency |-> towerObj[t1].frequency,
     distance |-> calculateDistance(towerObj[t1].lat, towerObj[t1].lng,
                                    towerObj[t2].lat, towerObj[t2].lng),
     polyline |-> TRUE, fresnelZone |-> FALSE]

\* the link object createLink builds: the frequency and the distance are
\* snapshots taken here; polyline is TRUE while the line is on the map
NewLink(id, t1, t2) ==
    [id |-> id, tower1 |-> t1, tower2 |-> t2,
     frequency |-> towerObj[t1].frequency,
     distance |-> calculateDistance(towerObj[t1].lat, towerObj[t1].lng,
                                    towerObj[t2].lat, towerObj[t2].lng),
     polyline |-> TRUE, fresnelZone |-> FALSE]

\* handleTowerClickForLink with a createLink that takes its id from
\* state.linkIdCounter++ before the test for an existing link
HandleTowerClickForLinkCountingFirst(t) ==
    LET sel == ToggleSelection(selectedTowers, t) IN
    /\ animating' = {}
    /\ IF Len(sel) = 2
       THEN LET tower1 == sel[1]
                tower2 == sel[2]
            IN /\ selectedTowers' = <<>>
               /\ IF FrequencyMismatch(towerObj[tower1].frequency, towerObj[tower2].frequency)
                  THEN /\ notification' = "frequencyMismatch"
                       /\ UNCHANGED <<links, linkIdCounter>>
                  ELSE /\ linkIdCounter <= MaxLinkId
                       /\ linkIdCounter' = linkIdCounter + 1
                       /\ IF LinkExists(links, tower1, tower2)
                          THEN /\ notification' = "duplicateLink"
                               /\ UNCHANGED links
                          ELSE /\ notification' = "none"
                               /\ links' = Append(links, NewLink(linkIdCounter, tower1, tower2))
       ELSE /\ selectedTowers' = sel
            /\ notification' = "none"
            /\ UNCHANGED <<links, linkIdCounter>>

\* handleTowerClickForLink(tower), with createLink and clearTowerSelection
HandleTowerClickForLink(t) ==
    LET sel == ToggleSelection(selectedTowers, t) IN
    /\ animating' = {}
    /\ IF Len(sel) = 2
       THEN LET tower1 == sel[1]
                tower2 == sel[2]
            IN /\ selectedTowers' = <<>>
               /\ IF FrequencyMismatch(towerObj[tower1].frequency, towerObj[tower2].frequency)
                  THEN /\ notification' = "frequencyMismatch"
                       /\ UNCHANGED <<links, linkIdCounter>>
                  ELSE IF LinkExists(links, tower1, tower2)
                  THEN /\ notification' = "duplicateLink"
                       /\ UNCHANGED <<links, linkIdCounter>>
                  ELSE /\ linkIdCounter <= MaxLinkId
                       /\ notification' = "none"
                       /\ links' = Append(links, NewLink(linkIdCounter, tower1, tower2))
                       /\ linkIdCounter' = linkIdCounter + 1
       ELSE /\ selectedTowers' = sel
            /\ notification' = "none"
            /\ UNCHANGED <<links, linkIdCounter>>

\* the marker's click listener without its test of state.mode
MarkerClickAnyMode(t) ==
    /\ t \in Range(towers)
    /\ thrown' = FALSE
    /\ UNCHANGED calc
    /\ HandleTowerClickForLink(t)
    /\ UNCHANGED <<mode, towers, towerObj, towerIdCounter, pendingTowerLocation,
                   activeLinkForFresnel, confirmAction, confirmShown, armed, preEdit>>

\* the marker's click listener installed by addTower; the marker is on the
\* map while the tower is in state.towers
MarkerClick(t) ==
    /\ t \in Range(towers)
    /\ thrown' = FALSE
    /\ UNCHANGED calc
    /\ IF mode = "addLink"
       THEN HandleTowerClickForLink(t)
       ELSE /\ notification' = "none"
            /\ UNCHANGED <<links, linkIdCounter, selectedTowers, animating>>
    /\ UNCHANGED <<mode, towers, towerObj, towerIdCounter, pendingTowerLocation,
                   activeLinkForFresnel, confirmAction, confirmShown, armed, preEdit>>

\* setMode returning early when the mode does not change
SetModeIfChanged(m) ==
    /\ mode' = m
    /\ selectedTowers' = IF m = mode THEN selectedTowers ELSE <<>>
    /\ animating' = IF m = mode THEN animating ELSE {}
    /\ notification' = "none"
    /\ UNCHANGED calc
    /\ thrown' = FALSE
    /\ UNCHANGED <<towers, towerObj, links, towerIdCounter, linkIdCounter,
                   pendingTowerLocation, activeLinkForFresnel, confirmAction,
                   confirmShown, armed, preEdit>>

\* setMode(mode), with clearTowerSelection
SetMode(m) ==
    /\ mode' = m
    /\ selectedTowers' = <<>>
    /\ animating' = {}
    /\ notification' = "none"
    /\ UNCHANGED calc
    /\ thrown' = FALSE
    /\ UNCHANGED <<towers, towerObj, links, towerIdCounter, linkIdCounter,
                   pendingTowerLocation, activeLinkForFresnel, confirmAction,
                   confirmShown, armed, preEdit>>

\* ------------------------------------------------------------- deletions
\* performDeleteLink without its linkIndex === -1 return: splice(-1, 1)
\* removes the last link
performDeleteLinkUnguarded(st, linkId) ==
    LET linkIndex == findIndex(st.links, linkId) IN
    IF linkIndex = 0
    THEN [links |-> IF Len(st.links) > 0 THEN splice(st.links, Len(st.links)) ELSE st.links,
          active |-> IF st.active = linkId THEN null ELSE st.active]
    ELSE [links |-> splice(st.links, linkIndex),
          active |-> IF st.active = linkId THEN null ELSE st.active]

\* performDeleteLink without its reset of state.activeLinkForFresnel
performDeleteLinkKeepingActive(st, linkId) ==
    LET linkIndex == findIndex(st.links, linkId) IN
    IF linkIndex = 0 THEN st
    ELSE [links |-> splice(st.links, linkIndex), active |-> st.active]

\* performDeleteLink(linkId) on st = [links, active]
performDeleteLink(st, linkId) ==
    LET linkIndex == findIndex(st.links, linkId) IN
    IF linkIndex = 0 THEN st
    ELSE [links |-> splice(st.links, linkIndex),
          active |-> IF st.active = linkId THEN null ELSE st.active]

\* toRemove.forEach(link => performDeleteLink(link.id)), toRemove a sequence of link ids
RECURSIVE DeleteEach(_, _, _)
DeleteEach(st, toRemove, k) ==
    IF k > Len(toRemove) THEN st
    ELSE DeleteEach(performDeleteLink(st, toRemove[k]), toRemove, k + 1)

LinkIds(ls) == [i \in 1..Len(ls) |-> ls[i].id]

\* performDeleteTower's filter looking at tower1 only
LinksToRemoveFirstEnd(ls, towerId) ==
    SelectSeq(ls, LAMBDA link : link.tower1 = towerId)

\* performDeleteTower's filter: links with towerId at either end
LinksToRemove(ls, towerId) ==
    SelectSeq(ls, LAMBDA link : link.tower1 = towerId \/ link.tower2 = towerId)

\* performDeleteTower(towerId) on st = [towers, links, active]
performDeleteTower(st, towerId) ==
    LET towerIndex == idIndex(st.towers, towerId) IN
    IF towerIndex = 0 THEN st
    ELSE LET after == DeleteEach([links |-> st.links, active |-> st.active],
                                 LinkIds(LinksToRemove(st.links, towerId)), 1)
         IN [towers |-> splice(st.towers, towerIndex),
             links |-> after.links, active |-> after.active]

Registry == [towers |-> towers, links |-> links, active |-> activeLinkForFresnel]

\* showConfirmationModal leaving the listeners of a confirmation that is
\* still open in place (no cloneNode and replaceChild)
ShowConfirmationKeepingFirst(kind, id) ==
    /\ confirmShown' = TRUE
    /\ armed' = IF confirmShown THEN armed
                ELSE [kind |-> kind, id |-> id, links |-> <<>>, returnPromise |-> FALSE]
    /\ preEdit' = NoEdit
    /\ UNCHANGED confirmAction

\* showConfirmationModal(title, message, onConfirm): shows the modal and
\* replaces the listeners of both buttons; no promise, confirmAction untouched
ShowConfirmation(kind, id) ==
    /\ confirmShown' = TRUE
    /\ armed' = [kind |-> kind, id |-> id, links |-> <<>>, returnPromise |-> FALSE]
    /\ preEdit' = NoEdit
    /\ UNCHANGED confirmAction

\* requestDeleteTower deleting at once, without the confirmation
RequestDeleteTowerUnconfirmed(t) ==
    LET after == performDeleteTower(Registry, t) IN
    /\ t \in 1..(towerIdCounter - 1)
    /\ notification' = "none"
    /\ UNCHANGED calc
    /\ thrown' = FALSE
    /\ towers' = after.towers
    /\ links' = after.links
    /\ activeLinkForFresnel' = after.active
    /\ animating' = {}
    /\ UNCHANGED <<mode, towerObj, selectedTowers, towerIdCounter, linkIdCounter,
                   pendingTowerLocation, confirmAction, confirmShown, armed, preEdit>>

\* requestDeleteTower(towerId), from a tower item's delete button
RequestDeleteTower(t) ==
    /\ t \in 1..(towerIdCounter - 1)
    /\ notification' = "none"
    /\ UNCHANGED calc
    /\ thrown' = FALSE
    /\ IF idIndex(towers, t) = 0
       THEN UNCHANGED <<confirmShown, armed, confirmAction, preEdit>>
       ELSE ShowConfirmation("deleteTower", t)
    /\ UNCHANGED <<mode, towers, towerObj, links, selectedTowers, towerIdCounter,
                   linkIdCounter, pendingTowerLocation, activeLinkForFresnel,
                   animating>>

\* window.deleteLink with the step of the declared deleteLink that takes the
\* polyline off the map before the confirmation is answered
DeleteLinkRemovingPolyline(l) ==
    /\ l \in 1..(linkIdCounter - 1)
    /\ notification' = "none"
    /\ UNCHANGED calc
    /\ thrown' = FALSE
    /\ IF findIndex(links, l) = 0
       THEN UNCHANGED <<confirmShown, armed, confirmAction, preEdit, links>>
       ELSE /\ ShowConfirmation("deleteLink", l)
            /\ links' = [links EXCEPT ![findIndex(links, l)].polyline = FALSE]
    /\ UNCHANGED <<mode, towers, towerObj, selectedTowers, towerIdCounter,
                   linkIdCounter, pendingTowerLocation, activeLinkForFresnel,
                   animating>>

\* window.deleteLink(linkId, false), from a link item's delete button
DeleteLink(l) ==
    /\ l \in 1..(linkIdCounter - 1)
    /\ notification' = "none"
    /\ UNCHANGED calc
    /\ thrown' = FALSE
    /\ IF findIndex(links, l) = 0
       THEN UNCHANGED <<confirmShown, armed, confirmAction, preEdit>>
       ELSE ShowConfirmation("deleteLink", l)
    /\ UNCHANGED <<mode, towers, towerObj, links, selectedTowers, towerIdCounter,
                   linkIdCounter, pendingTowerLocation, activeLinkForFresnel,
                   animating>>

\* the animationend listener requestDeleteTower's onConfirm puts on the
\* tower's list item: performDeleteTower(towerId), which re-renders the list
AnimationEnd(t) ==
    LET after == performDeleteTower(Registry, t) IN
    /\ t \in animating
    /\ towers' = after.towers
    /\ links' = after.links
    /\ activeLinkForFresnel' = after.active
    /\ animating' = IF idIndex(towers, t) = 0 THEN animating \ {t} ELSE {}
    /\ notification' = "none"
    /\ UNCHANGED calc
    /\ thrown' = FALSE
    /\ UNCHANGED <<mode, towerObj, selectedTowers, towerIdCounter, linkIdCounter,
                   pendingTowerLocation, confirmAction, confirmShown, armed, preEdit>>

\* --------------------------------------------------------- frequency edit
\* updateTowerFrequency's filter testing only link.tower1.id === towerId
InvalidLinksFirstEnd(ls, objs, towerId) ==
    SelectSeq(ls, LAMBDA link :
        /\ link.tower1 = towerId
        /\ ~StrictEq(objs[link.tower1].frequency, objs[link.tower2].frequency))

\* updateTowerFrequency's filter, evaluated on the tower objects after the
\* assignment tower.frequency = parseFloat(newFrequency)
InvalidLinks(ls, objs, towerId) ==
    SelectSeq(ls, LAMBDA link :
        /\ (link.tower1 = towerId \/ link.tower2 = towerId)
        /\ ~StrictEq(objs[link.tower1].frequency, objs[link.tower2].frequency))

\* updateTowerFrequency(towerId, newFrequency) up to its await (or to its end
\* when no link is invalid), from the onchange of a tower item's input
UpdateTowerFrequency(t, s) ==
    LET objs == [towerObj EXCEPT ![t].frequency = parseFloat(s)]
        invalidLinks == InvalidLinks(links, objs, t)
    IN
    /\ t \in 1..(towerIdCounter - 1)
    /\ notification' = "none"
    /\ UNCHANGED calc
    /\ thrown' = FALSE
    /\ IF idIndex(towers, t) = 0
       THEN UNCHANGED <<towerObj, confirmShown, armed, confirmAction, preEdit, animating>>
       ELSE /\ towerObj' = objs
            /\ IF Len(invalidLinks) > 0
               THEN /\ confirmShown' = TRUE
                    /\ armed' = [kind |-> "frequency", id |-> t,
                                 links |-> LinkIds(invalidLinks), returnPromise |-> TRUE]
                    /\ confirmAction' = t
                    /\ preEdit' = [tower |-> t, frequency |-> towerObj[t].frequency]
                    /\ UNCHANGED animating
               ELSE /\ animating' = {}
                    /\ UNCHANGED <<confirmShown, armed, confirmAction, preEdit>>
    /\ UNCHANGED <<mode, towers, links, selectedTowers, towerIdCounter, linkIdCounter,
                   pendingTowerLocation, activeLinkForFresnel>>

\* ---------------------------------------------------- confirmation modal
\* hideConfirmationModal(): the value it leaves in state.confirmAction
hideConfirmationModal(action) == null

\* state.confirmAction as handleConfirm and handleCancel find it when they
\* reach state.confirmAction.resolve(...): hideConfirmationModal() ran first
ResolverAtResolve == hideConfirmationModal(confirmAction)

\* the revert of updateTowerFrequency after await returned false:
\* state.links.find(l => touches towerId)?.frequency || tower.frequency
OriginalFrequency(ls, objs, towerId) ==
    LET touching == LinksToRemove(ls, towerId) IN
    IF Len(touching) > 0 /\ ~Falsy(touching[1].frequency)
    THEN touching[1].frequency
    ELSE objs[towerId].frequency

\* the tower objects after the rest of updateTowerFrequency(resolver) has run
\* with the awaited value confirmed
Resumed(objs, ls, resolver, confirmed) ==
    IF confirmed THEN objs
    ELSE [objs EXCEPT ![resolver].frequency = OriginalFrequency(ls, objs, resolver)]

\* handleConfirm: onConfirm(), hideConfirmationModal(), then, for a promise,
\* state.confirmAction.resolve(true) and the continuation it releases
HandleConfirm ==
    LET inDom == idIndex(towers, armed.id) # 0
        afterTower == IF armed.kind = "deleteTower" /\ ~inDom
                      THEN performDeleteTower(Registry, armed.id)
                      ELSE Registry
        afterLinks == IF armed.kind = "deleteLink"
                      THEN performDeleteLink([links |-> links, active |-> activeLinkForFresnel],
                                             armed.id)
                      ELSE IF armed.kind = "frequency"
                      THEN DeleteEach([links |-> links, active |-> activeLinkForFresnel],
                                      armed.links, 1)
                      ELSE [links |-> afterTower.links, active |-> afterTower.active]
        resolver == ResolverAtResolve
    IN
    /\ confirmShown
    /\ towers' = afterTower.towers
    /\ links' = afterLinks.links
    /\ activeLinkForFresnel' = afterLinks.active
    /\ confirmShown' = FALSE
    /\ confirmAction' = hideConfirmationModal(confirmAction)
    /\ notification' = "none"
    /\ UNCHANGED calc
    /\ IF armed.returnPromise
       THEN IF resolver = null
            THEN /\ thrown' = TRUE
                 /\ UNCHANGED <<towerObj, animating>>
            ELSE /\ thrown' = FALSE
                 /\ towerObj' = Resumed(towerObj, afterLinks.links, resolver, TRUE)
                 /\ animating' = {}
       ELSE /\ thrown' = FALSE
            /\ animating' = IF armed.kind = "deleteTower" /\ inDom
                            THEN animating \cup {armed.id}
                            ELSE animating
            /\ UNCHANGED towerObj
    /\ armed' = NoHandler
    /\ preEdit' = NoEdit
    /\ UNCHANGED <<mode, selectedTowers, towerIdCounter, linkIdCounter,
                   pendingTowerLocation>>

\* handleCancel: hideConfirmationModal(), then, for a promise,
\* state.confirmAction.resolve(false) and the continuation it releases
HandleCancel ==
    LET resolver == ResolverAtResolve IN
    /\ confirmShown
    /\ confirmShown' = FALSE
    /\ confirmAction' = hideConfirmationModal(confirmAction)
    /\ notification' = "none"
    /\ UNCHANGED calc
    /\ IF armed.returnPromise
       THEN IF resolver = null
            THEN /\ thrown' = TRUE
                 /\ UNCHANGED <<towerObj, animating>>
            ELSE /\ thrown' = FALSE
                 /\ towerObj' = Resumed(towerObj, links, resolver, FALSE)
                 /\ animating' = {}
       ELSE /\ thrown' = FALSE
            /\ UNCHANGED <<towerObj, animating>>
    /\ armed' = NoHandler
    /\ preEdit' = NoEdit
    /\ UNCHANGED <<mode, towers, links, selectedTowers, towerIdCounter, linkIdCounter,
                   pendingTowerLocation, activeLinkForFresnel>>

\* the click listener of confirmModal itself (a click outside the dialog):
\* hideConfirmationModal() and nothing else
OutsideClick ==
    /\ confirmShown
    /\ confirmShown' = FALSE
    /\ confirmAction' = hideConfirmationModal(confirmAction)
    /\ notification' = "none"
    /\ UNCHANGED calc
    /\ thrown' = FALSE
    /\ armed' = NoHandler
    /\ preEdit' = NoEdit
    /\ UNCHANGED <<mode, towers, towerObj, links, selectedTowers, towerIdCounter,
                   linkIdCounter, pendingTowerLocation, activeLinkForFresnel, animating>>

\* ------------------------------------------------------------ Fresnel zone
\* deactivateActiveFresnelZone without its last assignment,
\* state.activeLinkForFresnel = null
deactivateKeepingActive(st) ==
    LET prevLink == findIndex(st.links, st.active) IN
    [links |-> IF prevLink # 0 /\ st.links[prevLink].fresnelZone
               THEN [st.links EXCEPT ![prevLink].fresnelZone = FALSE]
               ELSE st.links,
     active |-> st.active]

\* deactivateActiveFresnelZone without prevLink.fresnelZone = null
deactivateLeavingZone(st) ==
    [links |-> st.links, active |-> null]

\* deactivateActiveFresnelZone() on st = [links, active]
deactivateActiveFresnelZone(st) ==
    LET prevLink == findIndex(st.links, st.active) IN
    [links |-> IF prevLink # 0 /\ st.links[prevLink].fresnelZone
               THEN [st.links EXCEPT ![prevLink].fresnelZone = FALSE]
               ELSE st.links,
     active |-> null]

\* showFresnelZone without the deactivation of another active link
showFresnelZoneKeepingOther(st, linkId) ==
    IF st.active = linkId THEN deactivateActiveFresnelZone(st)
    ELSE [links |-> [st.links EXCEPT ![findIndex(st.links, linkId)].fresnelZone = TRUE],
          active |-> linkId]

\* showFresnelZone reading the link's frequency anew from its first tower
\* when it activates the link
showFresnelZoneRefreshing(st, linkId) ==
    IF st.active = linkId THEN deactivateActiveFresnelZone(st)
    ELSE LET cleared == IF st.active # null THEN deactivateActiveFresnelZone(st) ELSE st
             linkIndex == findIndex(cleared.links, linkId)
         IN [links |-> [cleared.links EXCEPT
                           ![linkIndex].fresnelZone = TRUE,
                           ![linkIndex].frequency =
                               towerObj[cleared.links[linkIndex].tower1].frequency],
             active |-> linkId]

\* showFresnelZone(link) on st = [links, active]
showFresnelZone(st, linkId) ==
    IF st.active = linkId THEN deactivateActiveFresnelZone(st)
    ELSE LET cleared == IF st.active # null THEN deactivateActiveFresnelZone(st) ELSE st
         IN [links |-> [cleared.links EXCEPT ![findIndex(cleared.links, linkId)].fresnelZone = TRUE],
             active |-> linkId]

\* a click on a link's polyline or on its list item
ShowFresnelZone(l) ==
    LET after == showFresnelZone([links |-> links, active |-> activeLinkForFresnel], l) IN
    /\ findIndex(links, l) # 0
    /\ links' = after.links
    /\ activeLinkForFresnel' = after.active
    /\ notification' = "none"
    /\ UNCHANGED calc
    /\ thrown' = FALSE
    /\ UNCHANGED <<mode, towers, towerObj, selectedTowers, towerIdCounter, linkIdCounter,
                   pendingTowerLocation, confirmAction, confirmShown, armed, animating,
                   preEdit>>

Next ==
    \/ \E loc \in Locations : HandleMapClick(loc)
    \/ HideTowerModal
    \/ \E name \in Names, s \in SaveInputs : SaveTower(name, s)
    \/ \E t \in 1..MaxTowerId : MarkerClick(t)
    \/ \E m \in Modes : SetMode(m)
    \/ \E t \in 1..MaxTowerId : RequestDeleteTower(t)
    \/ \E l \in 1..MaxLinkId : DeleteLink(l)
    \/ \E t \in 1..MaxTowerId : AnimationEnd(t)
    \/ \E t \in 1..MaxTowerId, s \in FreqInputs : UpdateTowerFrequency(t, s)
    \/ HandleConfirm
    \/ HandleCancel
    \/ OutsideClick
    \/ \E l \in 1..MaxLinkId : ShowFresnelZone(l)

Spec == Init /\ [][Next]_vars

\* the browser fires animationend on an element that is animating and still
\* in the document
FairSpec == Spec /\ WF_vars(\E t \in 1..MaxTowerId : AnimationEnd(t))

\* ------------------------------------------------- deletion specification
\* A registry of RegistryTowers towers placed at the default frequency and up
\* to RegistryLinks links between distinct pairs of them (each pair clicked
\* lower id first), as tower placement and pairing leave it; from there only
\* deletions, Fresnel toggles and mode switches.
OrientedPairs ==
    {p \in (1..RegistryTowers) \X (1..RegistryTowers) : p[1] < p[2]}

RegistryLinkSeqs ==
    {ps \in UNION {[1..n -> OrientedPairs] : n \in 0..RegistryLinks} :
        \A i, j \in DOMAIN ps : i # j => {ps[i][1], ps[i][2]} # {ps[j][1], ps[j][2]}}

\* the towers of the registry stand on the equator, RegistrySpacing
\* hundredths of a degree apart
RegistrySpacing == 3000

RegistryLng(i) == (i - 1) * RegistrySpacing

InitDelete ==
    /\ mode = "addLink"
    /\ towers = [i \in 1..RegistryTowers |-> i]
    /\ towerObj = [i \in 1..RegistryTowers |->
                      [id |-> i, name |-> "Tower", frequency |-> DEFAULT_FREQUENCY,
                       lat |-> 0, lng |-> RegistryLng(i)]]
    /\ \E ps \in RegistryLinkSeqs :
           links = [i \in DOMAIN ps |->
                       [id |-> i, tower1 |-> ps[i][1], tower2 |-> ps[i][2],
                        frequency |-> DEFAULT_FREQUENCY,
                        distance |-> calculateDistance(0, RegistryLng(ps[i][1]),
                                                       0, RegistryLng(ps[i][2])),
                        polyline |-> TRUE, fresnelZone |-> FALSE]]
    /\ selectedTowers = <<>>
    /\ towerIdCounter = RegistryTowers + 1
    /\ linkIdCounter = Len(links) + 1
    /\ pendingTowerLocation = <<>>
    /\ activeLinkForFresnel = null
    /\ confirmAction = null
    /\ confirmShown = FALSE
    /\ armed = NoHandler
    /\ animating = {}
    /\ preEdit = NoEdit
    /\ notification = "none"
    /\ thrown = FALSE
    /\ calc = NoCalc

NextDelete ==
    \/ \E m \in Modes : SetMode(m)
    \/ \E t \in 1..RegistryTowers : RequestDeleteTower(t)
    \/ \E t \in 1..RegistryTowers : AnimationEnd(t)
    \/ HandleConfirm
    \/ HandleCancel
    \/ OutsideClick
    \/ \E l \in 1..RegistryLinks : ShowFresnelZone(l)

DeleteSpec == InitDelete /\ [][NextDelete]_vars

\* ------------------------------------------------- edit specification
\* The program started in the registry states of InitDelete; from there
\* frequency edits in the tower list with their confirmations, deletions of
\* links and Fresnel toggles, so that an edit meets towers with two links.
NextEdit ==
    \/ \E t \in 1..RegistryTowers, s \in FreqInputs : UpdateTowerFrequency(t, s)
    \/ \E l \in 1..RegistryLinks : DeleteLink(l)
    \/ HandleConfirm
    \/ HandleCancel
    \/ OutsideClick
    \/ \E l \in 1..RegistryLinks : ShowFresnelZone(l)

EditSpec == InitDelete /\ [][NextEdit]_vars

\* ------------------------------------------------- link specification
\* The registry states of InitDelete in link mode; from there pairings of
\* the towers, frequency edits between two values, deletions of links with
\* their confirmations and Fresnel toggles, so that links are created, edited
\* around and deleted while other links exist.
EditInputs == {"5", "5.1"}

NextLink ==
    \/ \E t \in 1..RegistryTowers : MarkerClick(t)
    \/ \E t \in 1..RegistryTowers, s \in EditInputs : UpdateTowerFrequency(t, s)
    \/ \E l \in 1..RegistryLinks : DeleteLink(l)
    \/ HandleConfirm
    \/ HandleCancel
    \/ OutsideClick
    \/ \E l \in 1..RegistryLinks : ShowFresnelZone(l)

LinkSpec == InitDelete /\ [][NextLink]_vars

\* ------------------------------------------------- plan specification
\* The program from its start with the operations both copies of the logic
\* have: tower placement, mode switches, tower clicks, and deletions of
\* towers and links, in the first copy with their confirmations.
NextPlan ==
    \/ \E loc \in Locations : HandleMapClick(loc)
    \/ HideTowerModal
    \/ \E name \in Names, s \in SaveInputs : SaveTower(name, s)
    \/ \E t \in 1..MaxTowerId : MarkerClick(t)
    \/ \E m \in Modes : SetMode(m)
    \/ \E t \in 1..MaxTowerId : RequestDeleteTower(t)
    \/ \E l \in 1..MaxLinkId : DeleteLink(l)
    \/ \E t \in 1..MaxTowerId : AnimationEnd(t)
    \/ HandleConfirm
    \/ HandleCancel

PlanSpec == Init /\ [][NextPlan]_vars

\* ------------------------------------------- calculation specification
\* The calculation functions called on latitudes and longitudes of a grid
\* (in DegreeScale; among them pairs of antipodal points and the two names
\* of the 180th meridian) at the default frequency, and on the frequencies
\* 0.1 .. MaxFrequencyGHz / 10 GHz.
Latitudes == {-6000, -1200, 0, 1200, 6000}
Longitudes == {-18000, -9000, 0, 9000, 18000}

\* the distances of links, in km (in Scale), and the frequencies their first
\* tower is edited to after the link was made
Distances == {10000, 50000, 100000}
TowerFrequencies == {DEFAULT_FREQUENCY, 51}

\* the ellipses asked of createEllipsePolygon: centres in DegreeScale, half
\* the length of a link and its Fresnel radius in metres, bearings in
\* DegreeScale, the number of points; and the zoom levels of the map
Ellipses ==
    [center : {[lat |-> 0, lng |-> 0], [lat |-> 1200, lng |-> 1200]},
     semiMajor : {500, 5000}, semiMinor : {12, 39},
     bearing : {0, 4500, 9000}, points : {4, 8}]
Zooms == {8, 10}

CalcInputs ==
    [fn : {"none"}, lat1 : Latitudes, lon1 : Longitudes, lat2 : Latitudes,
     lon2 : Longitudes, frequencyGHz : {DEFAULT_FREQUENCY}, distance : {100000},
     towerFrequencyGHz : {DEFAULT_FREQUENCY}, value : {0},
     ellipse : NoEllipse, zoom : {10}, latlngs : {<<>>}]
    \cup [fn : {"none"}, lat1 : {0}, lon1 : {0}, lat2 : {0}, lon2 : {0},
          frequencyGHz : 1..MaxFrequencyGHz, distance : Distances,
          towerFrequencyGHz : TowerFrequencies, value : {0},
          ellipse : NoEllipse, zoom : {10}, latlngs : {<<>>}]

InitCalc ==
    /\ mode = "addTower"
    /\ towers = <<>>
    /\ towerObj = <<>>
    /\ links = <<>>
    /\ selectedTowers = <<>>
    /\ towerIdCounter = 1
    /\ linkIdCounter = 1
    /\ pendingTowerLocation = <<>>
    /\ activeLinkForFresnel = null
    /\ confirmAction = null
    /\ confirmShown = FALSE
    /\ armed = NoHandler
    /\ animating = {}
    /\ preEdit = NoEdit
    /\ notification = "none"
    /\ thrown = FALSE
    /\ calc \in CalcInputs

\* what a calculation function leaves alone: all of state
StateUnchanged ==
    UNCHANGED <<mode, towers, towerObj, links, selectedTowers, towerIdCounter,
                linkIdCounter, pendingTowerLocation, activeLinkForFresnel,
                confirmAction, confirmShown, armed, animating, preEdit,
                notification, thrown>>

\* a call of calculateDistance on the two points
CalculateDistance ==
    /\ calc' = [calc EXCEPT !.fn = "calculateDistance",
                            !.value = calculateDistance(calc.lat1, calc.lon1,
                                                        calc.lat2, calc.lon2)]
    /\ StateUnchanged

\* a call of calculateWavelength on the frequency
CalculateWavelength ==
    /\ calc' = [calc EXCEPT !.fn = "calculateWavelength",
                            !.value = calculateWavelength(calc.frequencyGHz)]
    /\ StateUnchanged

\* a call of calculateBearing on the two points
CalculateBearing ==
    /\ calc' = [calc EXCEPT !.fn = "calculateBearing",
                            !.value = calculateBearing(calc.lat1, calc.lon1,
                                                       calc.lat2, calc.lon2)]
    /\ StateUnchanged

\* a call of the second copy's calculateBearing on the two points
CalculateBearingLegacy ==
    /\ calc' = [calc EXCEPT !.fn = "calculateBearingLegacy",
                            !.value = calculateBearingLegacy(calc.lat1, calc.lon1,
                                                             calc.lat2, calc.lon2)]
    /\ StateUnchanged

\* showFresnelZone's calculation of maxRadius for a link of the frequency
\* snapshot and the distance, its first tower at towerFrequencyGHz by now
CalculateFresnelRadius ==
    /\ calc' = [calc EXCEPT !.fn = "calculateFresnelRadius",
                            !.value = maxRadius(
                                [frequency |-> calc.frequencyGHz,
                                 distance |-> calc.distance,
                                 tower1 |-> [frequency |-> calc.towerFrequencyGHz]])]
    /\ StateUnchanged

NextCalc ==
    \/ CalculateDistance
    \/ CalculateWavelength
    \/ CalculateBearing
    \/ CalculateBearingLegacy
    \/ CalculateFresnelRadius

CalcSpec == InitCalc /\ [][NextCalc]_vars

\* --------------------------------------------- ellipse specification
\* createEllipsePolygon called on the ellipses, the map zoomed by the user
EllipseInputs ==
    [fn : {"none"}, lat1 : {0}, lon1 : {0}, lat2 : {0}, lon2 : {0},
     frequencyGHz : {DEFAULT_FREQUENCY}, distance : {0},
     towerFrequencyGHz : {DEFAULT_FREQUENCY}, value : {0},
     ellipse : Ellipses, zoom : {10}, latlngs : {<<>>}]

InitEllipse ==
    /\ mode = "addTower"
    /\ towers = <<>>
    /\ towerObj = <<>>
    /\ links = <<>>
    /\ selectedTowers = <<>>
    /\ towerIdCounter = 1
    /\ linkIdCounter = 1
    /\ pendingTowerLocation = <<>>
    /\ activeLinkForFresnel = null
    /\ confirmAction = null
    /\ confirmShown = FALSE
    /\ armed = NoHandler
    /\ animating = {}
    /\ preEdit = NoEdit
    /\ notification = "none"
    /\ thrown = FALSE
    /\ calc \in EllipseInputs

\* a call of createEllipsePolygon on the ellipse, the user having zoomed
\* the map to some level
CreateEllipsePolygon ==
    /\ \E zoom \in Zooms :
        calc' = [calc EXCEPT !.fn = "createEllipsePolygon",
                            !.zoom = zoom,
                            !.latlngs = createEllipsePolygon(
                                zoom, calc.ellipse.center, calc.ellipse.semiMajor,
                                calc.ellipse.semiMinor, calc.ellipse.bearing,
                                calc.ellipse.points)]
    /\ StateUnchanged

NextEllipse ==
    CreateEllipsePolygon

EllipseSpec == InitEllipse /\ [][NextEllipse]_vars

\* ================================================================ claims
Frequency(t) == towerObj[t].frequency
\* the selection a click on tower t's marker leads to, before any pairing
Clicked(t) == ToggleSelection(selectedTowers, t)
\* every tower in state.towers has a number > 0 as its frequency
ValidFrequencies == \A t \in Range(towers) : Frequency(t) # NaN /\ Frequency(t) > 0
\* a click on tower t's marker in link mode brings the selection to two towers
PairingAttempt(t) == MarkerClick(t) /\ mode = "addLink" /\ Len(Clicked(t)) = 2

\* C1: both endpoints of every link in state.links are towers currently in
\* state.towers (no dangling references).
C1_NoDanglingLinks ==
    \A i \in 1..Len(links) :
        links[i].tower1 \in Range(towers) /\ links[i].tower2 \in Range(towers)

\* C2: a pairing attempt adds a link only if the two selected towers'
\* frequencies are strictly equal, and then the new link's frequency snapshot
\* equals both; if they differ the mismatch error is shown and state.links is
\* unchanged.
C2_PairingRespectsFrequency ==
    [][\A t \in 1..MaxTowerId : PairingAttempt(t) =>
          LET f1 == Frequency(Clicked(t)[1])
              f2 == Frequency(Clicked(t)[2])
          IN /\ links' # links =>
                    /\ StrictEq(f1, f2)
                    /\ links' = Append(links, links'[Len(links')])
                    /\ StrictEq(links'[Len(links')].frequency, f1)
                    /\ StrictEq(links'[Len(links')].frequency, f2)
             /\ ~StrictEq(f1, f2) =>
                    /\ notification' = "frequencyMismatch"
                    /\ links' = links]_vars

\* C2 witness: a pairing of two towers of different frequencies has just been
\* rejected, after an earlier pairing had made a link
C2_Witness ==
    /\ notification = "frequencyMismatch"
    /\ selectedTowers = <<>>
    /\ linkIdCounter > 1

\* C3: a pairing attempt on two towers that are already linked, in either
\* order, shows the duplicate-link error and leaves state.links and
\* linkIdCounter unchanged (stated for attempts made while no confirmation
\* is open and every tower has a valid frequency).
C3_DuplicatePairingRejected ==
    [][\A t \in 1..MaxTowerId :
          (/\ PairingAttempt(t)
           /\ ~confirmShown
           /\ ValidFrequencies
           /\ LinkExists(links, Clicked(t)[1], Clicked(t)[2])) =>
              /\ notification' = "duplicateLink"
              /\ links' = links
              /\ linkIdCounter' = linkIdCounter]_vars

\* C4: no two distinct links in state.links join the same unordered pair of
\* tower ids.
C4_UndirectedUnique ==
    \A i, j \in 1..Len(links) :
        i # j => {links[i].tower1, links[i].tower2} # {links[j].tower1, links[j].tower2}

\* C4 witness: a second pairing of a linked pair, clicked in the reverse
\* order, has just been rejected
C4_Witness ==
    /\ notification = "duplicateLink"
    /\ Len(links) = 1
    /\ mode = "addLink"

\* C5: after the user has answered the confirmation of a frequency edit
\* (confirm or cancel), no link in state.links joins two towers whose current
\* frequencies differ (stated for edits to a valid frequency).
C5_EditLeavesNoMismatch ==
    [][(/\ armed.kind = "frequency"
        /\ ValidFrequencies
        /\ (HandleConfirm \/ HandleCancel)) =>
          \A i \in 1..Len(links') :
              StrictEq(towerObj'[links'[i].tower1].frequency,
                       towerObj'[links'[i].tower2].frequency)]_vars

\* C6: cancelling the confirmation of a frequency edit restores the tower's
\* frequency to its value before the edit and removes no link (stated for
\* edits to a valid frequency).
C6_CancelRestores ==
    [][(armed.kind = "frequency" /\ ValidFrequencies /\ HandleCancel) =>
          /\ towerObj'[preEdit.tower].frequency = preEdit.frequency
          /\ links' = links]_vars

\* C7: the frequency of every tower in state.towers is a positive number.
C7_FrequenciesPositive ==
    \A t \in Range(towers) : Frequency(t) # NaN /\ Frequency(t) > 0

\* C8: saving a pending tower with an empty name or a frequency that is zero,
\* negative or not a number adds no tower, leaves state.towers and
\* towerIdCounter unchanged and shows an error; a tower is appended only with
\* a non-empty name and a frequency > 0.
C8_SaveTowerValidates ==
    [][\A name \in Names, s \in SaveInputs : SaveTower(name, s) =>
          LET f == parseFloat(s)
              bad == name = "" \/ f = NaN \/ f <= 0
          IN /\ bad => /\ towers' = towers
                       /\ towerObj' = towerObj
                       /\ towerIdCounter' = towerIdCounter
                       /\ notification' = "invalidTower"
             /\ towers' # towers =>
                    /\ ~bad
                    /\ towers' = Append(towers, towerIdCounter)
                    /\ towerObj'[towerIdCounter].name # ""
                    /\ towerObj'[towerIdCounter].frequency > 0]_vars

\* C8 witness: a save has just been rejected while a location is pending and
\* a tower saved earlier is in place
C8_Witness ==
    /\ notification = "invalidTower"
    /\ pendingTowerLocation # <<>>
    /\ Len(towers) > 0

\* C9: performing the deletion of tower T removes from state.links exactly
\* the links with T at an end and removes T from state.towers; every other
\* tower and every other link is unchanged.
C9_DeleteTowerFrame ==
    [][\A t \in 1..RegistryTowers : (AnimationEnd(t) /\ t \in Range(towers)) =>
          /\ towers' = SelectSeq(towers, LAMBDA x : x # t)
          /\ links' = SelectSeq(links, LAMBDA l : l.tower1 # t /\ l.tower2 # t)
          /\ towerObj' = towerObj]_vars

\* C9 witness: one tower of the registry has been deleted with a link of its
\* own, and a link between two other towers is still there
C9_Witness ==
    /\ Len(towers) = RegistryTowers - 1
    /\ Len(links) > 0
    /\ Len(links) < linkIdCounter - 1

\* C10: once the user has confirmed the deletion of a tower, the tower and
\* all links touching it are eventually removed from the registry.
C10_ConfirmedDeletionCompletes ==
    \A t \in 1..MaxTowerId :
        (t \in animating) ~>
            (/\ t \notin Range(towers)
             /\ \A i \in 1..Len(links) : links[i].tower1 # t /\ links[i].tower2 # t)

\* what a deletion request must leave alone: the registry, the selection,
\* the active Fresnel link, the mode and the id counters
RegistryUnchanged ==
    UNCHANGED <<towers, towerObj, links, selectedTowers, activeLinkForFresnel,
                mode, towerIdCounter, linkIdCounter>>

\* C11: requesting the deletion of a tower changes neither towers, links,
\* selection nor the active Fresnel link, and cancelling or dismissing that
\* confirmation leaves them as they were.
C11_RequestMutatesNothing ==
    [][(\/ \E t \in 1..MaxTowerId : RequestDeleteTower(t)
        \/ (armed.kind = "deleteTower" /\ (HandleCancel \/ OutsideClick))) =>
          RegistryUnchanged]_vars

\* C11 witness: the confirmation of a tower deletion is open while a link
\* is in the registry, a tower is selected and a Fresnel zone is active
C11_Witness ==
    /\ confirmShown
    /\ armed.kind = "deleteTower"
    /\ Len(links) > 0
    /\ selectedTowers # <<>>
    /\ activeLinkForFresnel # null

\* the links that hold a Fresnel zone
WithFresnelZone(ls) == {i \in 1..Len(ls) : ls[i].fresnelZone}

\* C12: at most one link holds a Fresnel zone.
C12_SingleFresnelZone == Cardinality(WithFresnelZone(links)) <= 1

\* C12 witness: of two links the second holds the Fresnel zone
C12_Witness ==
    /\ Len(links) = 2
    /\ activeLinkForFresnel = links[2].id
    /\ WithFresnelZone(links) = {2}

\* C13: in either mode a click on a link that is not the active one leaves
\* it the only active Fresnel link, and a click on the active link leaves no
\* active link.
C13_FresnelToggle ==
    [][\A l \in 1..RegistryLinks : ShowFresnelZone(l) =>
          IF activeLinkForFresnel = l
          THEN /\ activeLinkForFresnel' = null
               /\ WithFresnelZone(links') = {}
          ELSE /\ activeLinkForFresnel' = l
               /\ WithFresnelZone(links') = {findIndex(links', l)}]_vars

\* C13 witness: in tower mode the first of two links is the active one and
\* the second holds no zone
C13_Witness ==
    /\ mode = "addTower"
    /\ Len(links) = 2
    /\ activeLinkForFresnel = links[1].id
    /\ WithFresnelZone(links) = {1}

\* the state a deletion of an absent id must leave alone
DeletionNoOp ==
    /\ UNCHANGED <<towers, towerObj, links, selectedTowers, activeLinkForFresnel,
                   towerIdCounter, linkIdCounter>>
    /\ ~thrown'

LinkRegistry == [links |-> links, active |-> activeLinkForFresnel]

\* deleting an id that is absent returns the registry as it is, and a second
\* deletion of any id changes nothing more
AbsentIdsNoOp ==
    /\ \A t \in 1..MaxTowerId :
          /\ t \notin Range(towers) => performDeleteTower(Registry, t) = Registry
          /\ performDeleteTower(performDeleteTower(Registry, t), t)
                 = performDeleteTower(Registry, t)
    /\ \A l \in 1..MaxLinkId :
          /\ findIndex(links, l) = 0 => performDeleteLink(LinkRegistry, l) = LinkRegistry
          /\ performDeleteLink(performDeleteLink(LinkRegistry, l), l)
                 = performDeleteLink(LinkRegistry, l)

\* C14: deleting a tower id or a link id that is not in the registry changes
\* nothing and raises no error, in the request handlers and in the confirmed
\* deletion alike; deleting twice gives what deleting once gives.
C14_AbsentDeletionNoOp ==
    /\ []AbsentIdsNoOp
    /\ [][/\ \A t \in 1..MaxTowerId :
                (t \notin Range(towers) /\ RequestDeleteTower(t)) =>
                    DeletionNoOp /\ UNCHANGED <<confirmShown, armed>>
          /\ \A l \in 1..MaxLinkId :
                (findIndex(links, l) = 0 /\ DeleteLink(l)) =>
                    DeletionNoOp /\ UNCHANGED <<confirmShown, armed>>
          /\ (/\ confirmShown
              /\ \/ armed.kind = "deleteTower" /\ armed.id \notin Range(towers)
                 \/ armed.kind = "deleteLink" /\ findIndex(links, armed.id) = 0
              /\ HandleConfirm) =>
                    DeletionNoOp]_vars

\* C14 witness: the confirmation of a link deletion is open, the link has
\* gone with one of its towers meanwhile, and a tower is still there
C14_Witness ==
    /\ confirmShown
    /\ armed.kind = "deleteLink"
    /\ findIndex(links, armed.id) = 0
    /\ Len(towers) > 0

\* ids in a collection are positive, strictly increasing along the
\* collection (hence unique) and below the counter
IdsInOrder(ids, counter) ==
    /\ \A i \in 1..Len(ids) : ids[i] >= 1 /\ ids[i] < counter
    /\ \A i, j \in 1..Len(ids) : i < j => ids[i] < ids[j]

\* C15: tower ids and link ids are unique positive integers, assigned in
\* strictly increasing order from a counter that never decreases, so that no
\* id is used again after a deletion.
C15_IdsMonotonic ==
    [][/\ IdsInOrder(towers', towerIdCounter')
       /\ IdsInOrder(LinkIds(links'), linkIdCounter')
       /\ \A t \in Range(towers') : towerObj'[t].id = t
       /\ towerIdCounter' >= towerIdCounter
       /\ linkIdCounter' >= linkIdCounter
       /\ \A t \in Range(towers') \ Range(towers) :
             t = towerIdCounter /\ towerIdCounter' = t + 1
       /\ \A l \in Range(LinkIds(links')) \ Range(LinkIds(links)) :
             l = linkIdCounter /\ linkIdCounter' = l + 1]_vars

\* C15 witness: the first link has been deleted and the two towers have been
\* linked again, by the link with the next id
C15_Witness ==
    /\ Len(towers) = 2
    /\ Len(links) = 1
    /\ links[1].id = 2

\* C16: every call of setMode, whatever the current and the requested mode,
\* leaves the selection empty.
C16_ModeSwitchClearsSelection ==
    [][\A m \in Modes : SetMode(m) => selectedTowers' = <<>>]_vars

\* C16 witness: back in tower mode with an empty selection, after link mode
\* was used to make a link
C16_Witness ==
    /\ mode = "addTower"
    /\ selectedTowers = <<>>
    /\ Len(links) > 0

\* C17: once a tower click in link mode has been processed the selection
\* holds at most one tower; a click that brings it to two runs the pairing
\* attempt and empties it whatever the outcome; a click on the single
\* selected tower deselects it with no pairing attempt.
C17_SelectionAtMostOne ==
    [][\A t \in 1..MaxTowerId : (MarkerClick(t) /\ mode = "addLink") =>
          /\ Len(selectedTowers') <= 1
          /\ (Len(selectedTowers) = 1 /\ selectedTowers[1] # t) => selectedTowers' = <<>>
          /\ selectedTowers = <<t>> =>
                 /\ selectedTowers' = <<>>
                 /\ links' = links
                 /\ linkIdCounter' = linkIdCounter
                 /\ notification' = "none"]_vars

\* C17 witness: the pairing attempt on two unlinked towers has just ended in
\* a frequency mismatch and the selection is empty
C17_Witness ==
    /\ mode = "addLink"
    /\ notification = "frequencyMismatch"
    /\ selectedTowers = <<>>
    /\ links = <<>>
    /\ Len(towers) = 2

\* C18: calculateDistance returns for (A, B) the number it returns for
\* (B, A), and 0 when A and B are the same point.
C18_DistanceSymmetric ==
    calc.fn = "calculateDistance" =>
        /\ StrictEq(calc.value,
                    calculateDistance(calc.lat2, calc.lon2, calc.lat1, calc.lon1))
        /\ (calc.lat1 = calc.lat2 /\ calc.lon1 = calc.lon2) => calc.value = 0

\* C19: for f > 0, calculateWavelength(f) is 3e8 / (f * 1e9) m, to the
\* nearest micrometre: the product of the wavelength and the frequency in Hz
\* is the speed of light within half a unit of the frequency; 5.0 GHz gives
\* 0.06 m.
C19_Wavelength ==
    calc.fn = "calculateWavelength" =>
        /\ 2 * Abs(calc.value * (calc.frequencyGHz * GHzToHz) - SPEED_OF_LIGHT)
               <= calc.frequencyGHz * GHzToHz
        /\ calc.frequencyGHz = DEFAULT_FREQUENCY => calc.value = 60000

\* C19 witness: the wavelength of 5.0 GHz has been calculated
C19_Witness ==
    /\ calc.fn = "calculateWavelength"
    /\ calc.frequencyGHz = DEFAULT_FREQUENCY

\* C20: calculateBearing, in either copy of the code, returns a value of
\* [0, 360) degrees.
C20_BearingInRange ==
    calc.fn \in {"calculateBearing", "calculateBearingLegacy"} =>
        calc.value >= 0 /\ calc.value < FullTurn

\* C21: whenever the user clicks confirm or cancel on the confirmation raised
\* by a frequency edit, the suspended updateTowerFrequency resumes with that
\* choice (the tower objects are those its continuation leaves) and no error
\* is raised while the promise is resolved
C21_ChoiceResumesEdit ==
    [][(armed.kind = "frequency" /\ (HandleConfirm \/ HandleCancel)) =>
          /\ ~thrown'
          /\ \E choice \in BOOLEAN :
                 towerObj' = Resumed(towerObj, links', confirmAction, choice)]_vars

\* C22: state.activeLinkForFresnel is null or the id of a link that is in
\* state.links: a deletion of the active link (directly, by the cascade of a
\* tower deletion, or by a confirmed frequency change) clears it
C22_ActiveLinkRegistered ==
    activeLinkForFresnel = null \/ findIndex(links, activeLinkForFresnel) # 0

\* the confirmation of a deletion that removes the active link is open
C22_Witness ==
    /\ confirmShown
    /\ activeLinkForFresnel # null
    /\ \/ armed.kind = "deleteLink" /\ armed.id = activeLinkForFresnel
       \/ armed.kind = "frequency" /\ idIndex(armed.links, activeLinkForFresnel) # 0

\* C23: the frequency snapshot of every link in state.links is a positive
\* number
C23_LinkFrequencyPositive ==
    \A i \in 1..Len(links) : links[i].frequency # NaN /\ links[i].frequency > 0

\* the ids of the links of ls that touch tower t and whose endpoint
\* frequencies, read in objs, differ (as numbers compare in JavaScript)
Mismatched(ls, objs, t) ==
    {ls[i].id : i \in {j \in 1..Len(ls) :
        /\ t \in {ls[j].tower1, ls[j].tower2}
        /\ ~StrictEq(objs[ls[j].tower1].frequency, objs[ls[j].tower2].frequency)}}

\* C24: an edit of tower t's frequency stores the new frequency; when no link
\* touching t has differing endpoint frequencies after it, it is applied at
\* once and no confirmation is requested; otherwise the confirmation is armed
\* with exactly those links, and confirming it deletes exactly them, leaves
\* every other link unchanged and t keeps the new frequency
C24_ConfirmedEditDeletesMismatched ==
    [][/\ \A t \in 1..RegistryTowers, s \in FreqInputs :
              (UpdateTowerFrequency(t, s) /\ idIndex(towers, t) # 0) =>
                  /\ towerObj'[t].frequency = parseFloat(s)
                  /\ links' = links
                  /\ IF Mismatched(links, towerObj', t) = {}
                     THEN confirmShown' = confirmShown /\ armed' = armed
                     ELSE /\ confirmShown'
                          /\ armed'.kind = "frequency" /\ armed'.id = t
                          /\ Range(armed'.links) = Mismatched(links, towerObj', t)
       /\ (armed.kind = "frequency" /\ HandleConfirm) =>
              /\ links' = SelectSeq(links, LAMBDA l : l.id \notin Range(armed.links))
              /\ towerObj' = towerObj]_vars

\* a confirmed edit has deleted one of two links: the tower that is no end
\* of the link left keeps its new frequency
C24_Witness ==
    /\ thrown
    /\ ~confirmShown
    /\ Len(links) = 1 /\ linkIdCounter = 3
    /\ \E t \in 1..RegistryTowers :
           /\ t \notin {links[1].tower1, links[1].tower2}
           /\ towerObj[t].frequency # DEFAULT_FREQUENCY

\* C25: requesting the deletion of a link changes nothing before the user
\* confirms: the link stays in state.links with its polyline on the map, and
\* it is still there after the user cancels or dismisses the confirmation
C25_LinkRequestMutatesNothing ==
    [][/\ \A l \in 1..RegistryLinks :
              (DeleteLink(l) /\ findIndex(links, l) # 0) =>
                  /\ RegistryUnchanged
                  /\ links'[findIndex(links', l)].polyline
       /\ (armed.kind = "deleteLink" /\ (HandleCancel \/ OutsideClick)) =>
              /\ RegistryUnchanged
              /\ findIndex(links, armed.id) # 0 =>
                     links'[findIndex(links', armed.id)].polyline]_vars

\* the deletion of one of two links has been requested and not yet answered
C25_Witness ==
    /\ confirmShown
    /\ armed.kind = "deleteLink"
    /\ Len(links) = 2
    /\ findIndex(links, armed.id) # 0
    /\ links[findIndex(links, armed.id)].polyline

\* C26: the distance, the frequency snapshot and the endpoints of a link are
\* those of its creation for as long as it is in state.links, whatever
\* happens around it (frequency edits, Fresnel toggles, creation or deletion
\* of other links)
C26_LinkSnapshotImmutable ==
    [][\A i \in 1..Len(links), j \in 1..Len(links') :
           links[i].id = links'[j].id =>
               /\ links'[j].distance = links[i].distance
               /\ links'[j].frequency = links[i].frequency
               /\ links'[j].tower1 = links[i].tower1
               /\ links'[j].tower2 = links[i].tower2]_vars

\* a link created here stands beside an older link whose frequency snapshot
\* is no longer the frequency of one of its towers
C26_Witness ==
    /\ Len(links) = 2
    /\ links[2].frequency # DEFAULT_FREQUENCY
    /\ links[2].distance # links[1].distance
    /\ \/ links[1].frequency # towerObj[links[1].tower1].frequency
       \/ links[1].frequency # towerObj[links[1].tower2].frequency
    /\ activeLinkForFresnel = links[1].id

\* C27: a map click in tower mode only records the pending location, and in
\* link mode it changes no state; cancelling the tower modal clears the
\* pending location and leaves state.towers and towerIdCounter as they were;
\* a tower is added only by a save with valid inputs while a location is
\* pending, at that location
C27_PlacementNeedsSave ==
    [][/\ \A loc \in Locations :
              HandleMapClick(loc) =>
                  /\ RegistryUnchanged
                  /\ UNCHANGED <<confirmAction, confirmShown, armed, animating>>
                  /\ pendingTowerLocation' =
                         IF mode = "addTower" THEN <<loc>> ELSE pendingTowerLocation
       /\ HideTowerModal =>
              /\ pendingTowerLocation' = <<>>
              /\ UNCHANGED <<towers, towerObj, towerIdCounter>>
       /\ (Len(towers') > Len(towers) \/ towerIdCounter' # towerIdCounter) =>
              /\ pendingTowerLocation # <<>>
              /\ \E name \in Names \ {""}, s \in SaveInputs :
                     /\ parseFloat(s) # NaN /\ parseFloat(s) > 0
                     /\ SaveTower(name, s)
              /\ towers' = Append(towers, towerIdCounter)
              /\ towerObj'[towerIdCounter].lat = pendingTowerLocation[1].lat
              /\ towerObj'[towerIdCounter].lng = pendingTowerLocation[1].lng]_vars

\* a second location is pending after a tower has been saved at the first
C27_Witness ==
    /\ mode = "addTower"
    /\ pendingTowerLocation # <<>>
    /\ Len(towers) = 1 /\ towerIdCounter = 2

\* C28: the Fresnel radius of a link is computed at the midpoint, d1 = d2 =
\* link.distance / 2, with the wavelength of the link's frequency snapshot
\* (whatever its towers' frequencies are by now); its square is
\* wavelength * d1m * d2m / (d1m + d2m), here wavelength * d1m / 2 since
\* d1m = d2m, to the rounding of the quotients and of the root (in cm^2);
\* a wavelength of 0.06 m over 10 km gives the radius 12.25 m, the root of 150
C28_FresnelRadius ==
    calc.fn = "calculateFresnelRadius" =>
        LET wavelength == Div(calculateWavelength(calc.frequencyGHz), 100)
            d1m == Div(Div(calc.distance, 2) * MetresPerKm, Scale)
        IN /\ calc.value # NaN
           /\ Abs(2 * calc.value * calc.value - wavelength * d1m)
                  <= 2 * (750 + calc.value + 1)
           /\ (calc.frequencyGHz = DEFAULT_FREQUENCY /\ calc.distance = 100000) =>
                  calc.value = 1225

\* the radius of a 10 km link made at the default frequency whose first tower
\* is at another frequency by now
C28_Witness ==
    /\ calc.fn = "calculateFresnelRadius"
    /\ calc.frequencyGHz = DEFAULT_FREQUENCY
    /\ calc.distance = 100000
    /\ calc.towerFrequencyGHz # calc.frequencyGHz
    /\ calc.value = 1225

\* C29: the two endpoints of every link in state.links are distinct towers:
\* no sequence of clicks pairs a tower with itself
C29_EndpointsDistinct ==
    \A i \in 1..Len(links) : links[i].tower1 # links[i].tower2

\* the two towers are paired a second time, after their first link was
\* deleted: the one link has the highest id
C29_Witness ==
    /\ Len(links) = 1
    /\ links[1].id = MaxLinkId
    /\ selectedTowers = <<>>
    /\ Len(towers) = 2

\* C30: every tower in state.selectedTowers is in state.towers
C30_SelectionRegistered ==
    \A i \in 1..Len(selectedTowers) : idIndex(towers, selectedTowers[i]) # 0

\* C31: whenever the mode is 'addTower' the selection is empty
C31_TowerModeSelectionEmpty ==
    mode = "addTower" => selectedTowers = <<>>

\* back in tower mode after towers were clicked in link mode: their link is
\* there and nothing is selected
C31_Witness ==
    /\ mode = "addTower"
    /\ Len(links) = 1
    /\ selectedTowers = <<>>

Requested(handler) ==
    IF handler.kind = "deleteLink" THEN {handler.id}
    ELSE IF handler.kind = "frequency" THEN Range(handler.links)
    ELSE {}

\* C33: one confirmation is armed at a time: a request made while another is
\* unanswered takes its place, and a click on confirm runs the action of the
\* request made last and nothing of a request it superseded
C33_LastRequestWins ==
    [][/\ \A l \in 1..RegistryLinks :
              (DeleteLink(l) /\ findIndex(links, l) # 0) =>
                  /\ confirmShown'
                  /\ armed'.kind = "deleteLink" /\ armed'.id = l
                  /\ Requested(armed') = {l}
       /\ \A t \in 1..RegistryTowers, s \in FreqInputs :
              (UpdateTowerFrequency(t, s) /\ Mismatched(links, towerObj', t) # {}) =>
                  /\ confirmShown'
                  /\ armed'.kind = "frequency" /\ armed'.id = t
                  /\ Requested(armed') = Mismatched(links, towerObj', t)
       /\ HandleConfirm =>
              /\ ~confirmShown' /\ armed' = NoHandler
              /\ links' = SelectSeq(links, LAMBDA l : l.id \notin Requested(armed))
              /\ UNCHANGED <<towers, towerObj>>]_vars

\* the deletion of a link was requested while the confirmation of a frequency
\* edit was unanswered: that edit's promise is pending, its links are there
C33_Witness ==
    /\ confirmShown
    /\ armed.kind = "deleteLink"
    /\ confirmAction # null
    /\ Len(links) = 2
    /\ Mismatched(links, towerObj, confirmAction) # {}
    /\ Mismatched(links, towerObj, confirmAction) # {armed.id}

\* C34: an id counter advances exactly when a tower or a link is created, by
\* one, and the new object carries the id the counter held; a rejected
\* pairing (frequency mismatch, duplicate), an invalid save and a cancelled
\* placement advance nothing. With the counters at 1 and nothing created at
\* the start, towerIdCounter - 1 and linkIdCounter - 1 are the numbers of
\* towers and links ever created
C34_CountersCountCreations ==
    [][/\ towerIdCounter' # towerIdCounter =>
              /\ towerIdCounter' = towerIdCounter + 1
              /\ towers' = Append(towers, towerIdCounter)
       /\ Len(towers') > Len(towers) => towerIdCounter' = towerIdCounter + 1
       /\ linkIdCounter' # linkIdCounter =>
              /\ linkIdCounter' = linkIdCounter + 1
              /\ Len(links') = Len(links) + 1
              /\ links'[Len(links')].id = linkIdCounter
       /\ Len(links') > Len(links) => linkIdCounter' = linkIdCounter + 1
       /\ notification' \in {"frequencyMismatch", "duplicateLink", "invalidTower"} =>
              UNCHANGED <<towerIdCounter, linkIdCounter, towers, links>>
       /\ HideTowerModal => UNCHANGED <<towerIdCounter, linkIdCounter, towers, links>>]_vars

\* a duplicate pairing has just been rejected after two links were made and
\* one deleted: the link counter stands at three with one link left
C34_Witness ==
    /\ notification = "duplicateLink"
    /\ Len(links) = 1
    /\ linkIdCounter = MaxLinkId + 1
    /\ towerIdCounter = MaxTowerId + 1

\* the state both copies keep, as the first copy holds it now
Current ==
    [mode |-> mode, towers |-> towers, towerObj |-> towerObj, links |-> links,
     selectedTowers |-> selectedTowers, towerIdCounter |-> towerIdCounter,
     linkIdCounter |-> linkIdCounter, pendingTowerLocation |-> pendingTowerLocation,
     active |-> activeLinkForFresnel]

\* the step of the first copy ends in the towers, links, selection, mode and
\* id counters of st
SameAs(st) ==
    /\ towers' = st.towers
    /\ towerObj' = st.towerObj
    /\ links' = st.links
    /\ selectedTowers' = st.selectedTowers
    /\ mode' = st.mode
    /\ towerIdCounter' = st.towerIdCounter
    /\ linkIdCounter' = st.linkIdCounter

\* C35: from the same state, a map click, a save, a mode switch, a tower click
\* and a performed deletion of a tower or of a link leave the first copy with
\* the towers, links, selection, mode and id counters the second copy's
\* handler computes; both start from the same state, so every sequence of
\* these operations brings the two copies to the same ones
C35_CopiesAgree ==
    [][/\ \A loc \in Locations :
              HandleMapClick(loc) =>
                  /\ SameAs(legacyHandleMapClick(Current, loc))
                  /\ pendingTowerLocation' =
                         legacyHandleMapClick(Current, loc).pendingTowerLocation
       /\ \A name \in Names, s \in SaveInputs :
              SaveTower(name, s) =>
                  /\ SameAs(legacySaveTower(Current, name, s))
                  /\ pendingTowerLocation' =
                         legacySaveTower(Current, name, s).pendingTowerLocation
       /\ \A m \in Modes : SetMode(m) => SameAs(legacySetMode(Current, m))
       /\ \A t \in 1..MaxTowerId :
              /\ MarkerClick(t) => SameAs(legacyMarkerClick(Current, t))
              /\ AnimationEnd(t) => SameAs(legacyDeleteTower(Current, t))
       /\ (armed.kind = "deleteLink" /\ HandleConfirm) =>
              SameAs(legacyDeleteLink(Current, armed.id))]_vars

\* two towers were placed and linked and one of them deleted with its link;
\* the other is selected in link mode
C35_Witness ==
    /\ mode = "addLink"
    /\ Len(towers) = 1 /\ towerIdCounter = 3
    /\ links = <<>> /\ linkIdCounter = 2
    /\ Len(selectedTowers) = 1


\* C36: createEllipsePolygon is deterministic in its arguments: a call with
\* the center, semi-axes, bearing and point count of the last call returns
\* the vertex sequence that call returned, whatever the state of the map
\* (its zoom level) at either call.
C36_EllipseDeterministic ==
    calc.fn = "createEllipsePolygon" =>
        \A zoom \in Zooms :
            createEllipsePolygon(zoom, calc.ellipse.center, calc.ellipse.semiMajor,
                                 calc.ellipse.semiMinor, calc.ellipse.bearing,
                                 calc.ellipse.points) = calc.latlngs

====
